---- MODULE Spec2Model ----
(***************************************************************************)
(* A model of pkgutil.c: the expansion of a package (an outer xar archive  *)
(* with flat entries and nested "Payload"/"Scripts" archives) into an      *)
(* output directory.                                                       *)
(*                                                                         *)
(* A C string is a sequence of one-character strings; NUL is the byte that *)
(* ends it and NULL the null pointer.  The model is the POSIX build: the   *)
(* only path separator is "/".                                             *)
(***************************************************************************)
EXTENDS Integers, Sequences, FiniteSets, TLC

NUL == "NUL"
NULL == <<"NULL">>

\* s[i] of a C string, 1-based: the terminating NUL sits at Len(s) + 1.
At(s, i) == IF i >= 1 /\ i <= Len(s) THEN s[i] ELSE NUL

\* The C string that starts at position i of s (the pointer s + i - 1).
From(s, i) == SubSeq(s, i, Len(s))

Payload == <<"P", "a", "y", "l", "o", "a", "d">>
Scripts == <<"S", "c", "r", "i", "p", "t", "s">>

nested_archive_names == <<Payload, Scripts>>

(***************************************************************************)
(* strip_components_path                                                   *)
(***************************************************************************)

\* while (remaining > 0) switch (*p++): a "/" uses up one of the remaining
\* components, NUL returns NULL (0 here), any other byte is passed over.
RECURSIVE StripSkip(_, _, _)
StripSkip(path, i, remaining) ==
  IF remaining <= 0 THEN i
  ELSE IF At(path, i) = "/" THEN StripSkip(path, i + 1, remaining - 1)
  ELSE IF At(path, i) = NUL THEN 0
  ELSE StripSkip(path, i + 1, remaining)

\* for (;;) switch (*p): further "/" are skipped, NUL returns NULL, anything
\* else returns a copy of the rest.
RECURSIVE StripRest(_, _)
StripRest(path, i) ==
  IF At(path, i) = "/" THEN StripRest(path, i + 1)
  ELSE IF At(path, i) = NUL THEN NULL
  ELSE From(path, i)

\* A slip in the first loop: one separator too few is counted.
strip_components_path_off_by_one(path, strip) ==
  IF path = NULL THEN NULL
  ELSE IF strip <= 0 THEN path
  ELSE LET i == StripSkip(path, 1, strip - 1)
       IN  IF i = 0 THEN NULL ELSE StripRest(path, i)

strip_components_path(path, strip) ==
  IF path = NULL THEN NULL
  ELSE IF strip <= 0 THEN path
  ELSE LET i == StripSkip(path, 1, strip)
       IN  IF i = 0 THEN NULL ELSE StripRest(path, i)

(***************************************************************************)
(* apply_strip_components: an entry is [pathname, hardlink]; the result    *)
(* is the entry as left behind and whether the caller is to skip it.       *)
(***************************************************************************)
apply_strip_components(e, strip) ==
  IF strip <= 0 THEN [skip |-> FALSE, e |-> e]
  ELSE LET stripped == strip_components_path(e.pathname, strip)
       IN  IF stripped = NULL THEN [skip |-> TRUE, e |-> e]
           ELSE LET e1 == [e EXCEPT !.pathname = stripped]
                IN  IF e.hardlink = NULL THEN [skip |-> FALSE, e |-> e1]
                    ELSE LET link == strip_components_path(e.hardlink, strip)
                         IN  IF link = NULL THEN [skip |-> TRUE, e |-> e1]
                             ELSE [skip |-> FALSE,
                                   e |-> [e1 EXCEPT !.hardlink = link]]

(***************************************************************************)
(* path_component_count                                                    *)
(***************************************************************************)
RECURSIVE CountFrom(_, _, _, _)
CountFrom(path, i, count, in_component) ==
  IF At(path, i) = NUL THEN count
  ELSE IF At(path, i) = "/" THEN CountFrom(path, i + 1, count, FALSE)
  ELSE IF ~in_component THEN CountFrom(path, i + 1, count + 1, TRUE)
  ELSE CountFrom(path, i + 1, count, TRUE)

path_component_count(path) ==
  IF path = NULL THEN 0 ELSE CountFrom(path, 1, 0, FALSE)

(***************************************************************************)
(* should_be_treated_as_nested_archive                                     *)
(***************************************************************************)
\* strrchr(path, '/'): the position of the last "/", 0 when there is none.
LastSlash(path) ==
  LET at == {i \in 1..Len(path) : path[i] = "/"}
  IN  IF at = {} THEN 0 ELSE CHOOSE i \in at : \A j \in at : j <= i

\* A slip: the whole path is compared with the names, not its base name.
should_be_treated_as_nested_archive_whole_path(path) ==
  /\ path # NULL
  /\ \E k \in 1..Len(nested_archive_names) : path = nested_archive_names[k]

should_be_treated_as_nested_archive(path) ==
  /\ path # NULL
  /\ LET name == From(path, LastSlash(path) + 1)
     IN  \E k \in 1..Len(nested_archive_names) : name = nested_archive_names[k]

(***************************************************************************)
(* contains_dotdot_segment, normalize_rel_path                             *)
(***************************************************************************)
RECURSIVE SkipSlashes(_, _)
SkipSlashes(path, i) ==
  IF At(path, i) = "/" THEN SkipSlashes(path, i + 1) ELSE i

RECURSIVE SkipSegment(_, _)
SkipSegment(path, i) ==
  IF At(path, i) # NUL /\ At(path, i) # "/" THEN SkipSegment(path, i + 1) ELSE i

RECURSIVE DotDotFrom(_, _)
DotDotFrom(path, i) ==
  IF At(path, i) = NUL THEN FALSE
  ELSE LET seg == SkipSlashes(path, i)
           end == SkipSegment(path, seg)
       IN  IF end - seg = 2 /\ At(path, seg) = "." /\ At(path, seg + 1) = "."
           THEN TRUE
           ELSE DotDotFrom(path, end)

\* A slip: only the first segment is looked at.
contains_dotdot_segment_first_only(path) ==
  LET seg == SkipSlashes(path, 1)
      end == SkipSegment(path, seg)
  IN  end - seg = 2 /\ At(path, seg) = "." /\ At(path, seg + 1) = "."

contains_dotdot_segment(path) == DotDotFrom(path, 1)

\* A slip: the test for an absolute path is missing.
normalize_rel_path_no_absolute_test(path) ==
  IF path = NULL THEN [ok |-> FALSE, rel |-> NULL]
  ELSE LET rel == IF At(path, 1) = "." /\ At(path, 2) = "/"
                  THEN From(path, 3) ELSE path
       IN  IF At(rel, 1) = NUL THEN [ok |-> FALSE, rel |-> NULL]
           ELSE IF contains_dotdot_segment(rel) THEN [ok |-> FALSE, rel |-> NULL]
           ELSE [ok |-> TRUE, rel |-> rel]

\* ok = FALSE is exit(1); otherwise rel is the copy returned.
normalize_rel_path(path) ==
  IF path = NULL THEN [ok |-> FALSE, rel |-> NULL]
  ELSE LET rel == IF At(path, 1) = "." /\ At(path, 2) = "/"
                  THEN From(path, 3) ELSE path
       IN  IF At(rel, 1) = NUL THEN [ok |-> FALSE, rel |-> NULL]
           ELSE IF At(rel, 1) = "/" THEN [ok |-> FALSE, rel |-> NULL]
           ELSE IF contains_dotdot_segment(rel) THEN [ok |-> FALSE, rel |-> NULL]
           ELSE [ok |-> TRUE, rel |-> rel]

(***************************************************************************)
(* join_prefix_path, has_include_descendant                                *)
(***************************************************************************)
join_prefix_path(prefix, path) ==
  IF prefix = NULL \/ At(prefix, 1) = NUL
       \/ (At(prefix, 1) = "." /\ At(prefix, 2) = NUL)
  THEN path
  ELSE prefix \o <<"/">> \o path

\* strncmp(pat, path, plen) == 0 && pat[plen] == '/'
has_include_descendant(includes, path) ==
  LET plen == Len(path)
  IN  \E k \in 1..Len(includes) :
        LET pat == includes[k]
        IN  /\ \A i \in 1..plen : At(pat, i) = At(path, i)
            /\ At(pat, plen + 1) = "/"

(***************************************************************************)
(* The pattern matcher behind should_extract_path: archive_match_excluded  *)
(* of libarchive, for patterns without wildcards ("*", "?", "[", "\", "$", *)
(* "^"), with inclusion recursion switched on as main does.                *)
(***************************************************************************)
RECURSIVE pm_slashskip(_, _)
pm_slashskip(s, i) ==
  IF \/ At(s, i) = "/"
     \/ (At(s, i) = "." /\ At(s, i + 1) = "/")
     \/ (At(s, i) = "." /\ At(s, i + 1) = NUL)
  THEN pm_slashskip(s, i + 1)
  ELSE i

RECURSIVE PmLoop(_, _, _, _, _)
PmLoop(pat, pi, s, si, no_anchor_end) ==
  LET pch == At(pat, pi)
      sch == At(s, si)
  IN  IF pch = NUL
      THEN IF sch = "/"
           THEN no_anchor_end \/ At(s, pm_slashskip(s, si)) = NUL
           ELSE sch = NUL
      ELSE IF pch = "/"
      THEN IF sch # "/" /\ sch # NUL THEN FALSE
           ELSE LET pj == pm_slashskip(pat, pi)
                    sj == pm_slashskip(s, si)
                IN  IF At(pat, pj) = NUL /\ no_anchor_end THEN TRUE
                    ELSE PmLoop(pat, pj, s, sj, no_anchor_end)
      ELSE IF pch # sch THEN FALSE
      ELSE PmLoop(pat, pi + 1, s, si + 1, no_anchor_end)

pm(pat, s, no_anchor_end) ==
  LET si == IF At(s, 1) = "." /\ At(s, 2) = "/" THEN pm_slashskip(s, 2) ELSE 1
      pi == IF At(pat, 1) = "." /\ At(pat, 2) = "/" THEN pm_slashskip(pat, 2) ELSE 1
  IN  PmLoop(pat, pi, s, si, no_anchor_end)

\* PATHMATCH_NO_ANCHOR_START: the pattern is tried at the start of each
\* path element.
RECURSIVE PmEachElement(_, _, _, _)
PmEachElement(pat, s, i, no_anchor_end) ==
  LET j == IF At(s, i) = "/" THEN i + 1 ELSE i
      slashes == {k \in j..Len(s) : s[k] = "/"}
  IN  \/ pm(pat, From(s, j), no_anchor_end)
      \/ /\ slashes # {}
         /\ PmEachElement(pat, s, CHOOSE k \in slashes : \A m \in slashes : k <= m,
                          no_anchor_end)

archive_pathmatch(pat, s, no_anchor_start, no_anchor_end) ==
  IF At(pat, 1) = NUL THEN At(s, 1) = NUL
  ELSE IF At(pat, 1) = "/" /\ At(s, 1) # "/" THEN FALSE
  ELSE IF At(pat, 1) = "/"
  THEN pm(From(pat, SkipSlashes(pat, 1)), From(s, SkipSlashes(s, 1)), no_anchor_end)
  ELSE IF no_anchor_start THEN PmEachElement(pat, s, 1, no_anchor_end)
  ELSE pm(pat, s, no_anchor_end)

\* Exclusions are anchored at neither end; inclusions at the start only
\* (the end is free because of the inclusion recursion).
match_path_exclusion(pat, path) == archive_pathmatch(pat, path, TRUE, TRUE)

match_path_inclusion(pat, path) == archive_pathmatch(pat, path, FALSE, TRUE)

\* matching is [inclusions, exclusions], two sequences of patterns.
path_excluded(matching, path) ==
  IF \E k \in 1..Len(matching.exclusions) :
       match_path_exclusion(matching.exclusions[k], path)
  THEN 1
  ELSE IF \E k \in 1..Len(matching.inclusions) :
            match_path_inclusion(matching.inclusions[k], path)
  THEN 0
  ELSE IF Len(matching.inclusions) > 0 THEN 1
  ELSE 0

\* A slip: the test of the matcher's answer is inverted.
should_extract_path_inverted(matching, path) == path_excluded(matching, path) # 0

should_extract_path(matching, path) == path_excluded(matching, path) = 0

(***************************************************************************)
(* Bounds and the inputs of a run                                          *)
(***************************************************************************)
MaxStrip == 2
BlockBytes == 16
MaxPathLen == 5

outdir == <<"o", "u", "t">>

\* The pathnames an archive may hand out, at the outer level and inside a
\* nested archive: unsafe ones, plain ones, and nested-archive names.
PathPool ==
  { NULL,
    << >>,
    <<"/", "a">>,
    <<".", ".">>,
    <<"a", "/", ".", ".">>,
    <<".", "/", "a">>,
    <<"a">>,
    <<"a", "/", "b">>,
    <<"a", "/", "/", "b">>,
    <<"b", "/">>,
    Payload,
    <<"a", "/">> \o Payload,
    Scripts }

LinkPool == { NULL, <<"a">>, <<"a", "/", "b">> }

IncludeChoices ==
  { << >>,
    << <<"a">> >>,
    << Payload >>,
    << Payload \o <<"/", "a">> >> }

ExcludeChoices ==
  { << >>,
    << <<"a">> >>,
    << <<"b">> >>,
    << Payload >> }

\* The bytes of a nested entry: an xz stream, and the same stream in a pbzx
\* container of one chunk (magic, flags with bit 24 set, then the chunk's
\* flags, its length 8 and its 8 bytes).
XzStream == <<253, 55, 122, 88, 90, 0, 89, 90>>

PbzxMagic == <<112, 98, 122, 120>>

PbzxStream ==
  PbzxMagic \o <<0, 0, 0, 0, 1, 0, 0, 0>>
    \o <<0, 0, 0, 0, 0, 0, 0, 0>> \o <<0, 0, 0, 0, 0, 0, 0, 8>> \o XzStream

ContentPool == { XzStream, PbzxStream }

\* The files of a non-empty output directory.
ExistingFiles == { outdir \o <<"/", "a">> }

NoEntry == [pathname |-> NULL, hardlink |-> NULL]
NoExtract == [dir |-> NULL, pathname |-> NULL]
NoStream == [raw |-> << >>, off |-> 0, eof |-> FALSE]

(***************************************************************************)
(* The state                                                               *)
(***************************************************************************)
VARIABLES
  force, do_expand_full, strip_components, includes, matching,
  pc, status, outdir_state, overwritten, cwd, extracted,
  p, e, rel, logical_path,
  nested_outdir, nested_strip, prefix, saved_cwd, in, delivered,
  s_path, s_strip, s_out

options == <<force, do_expand_full, strip_components, includes, matching>>
entry == <<p, e, rel, logical_path>>
call == <<nested_outdir, nested_strip, prefix, saved_cwd>>
stream == <<in, delivered>>
stripper == <<s_path, s_strip, s_out>>
vars == <<options, pc, status, outdir_state, overwritten, cwd, extracted,
          entry, call, stream, stripper>>

OuterPcs == {"next_header", "sanitize", "filter", "strip", "extract", "nested_setup",
             "nested_open"}
NestedPcs == {"n_next_header", "n_sanitize", "n_filter", "n_strip", "n_extract",
              "n_return"}

\* chdir to a relative directory, and where a relative pathname lands.
Chdir(dir, to) ==
  IF to = <<".">> THEN dir
  ELSE IF dir = <<".">> THEN to
  ELSE dir \o <<"/">> \o to

Location(dir, pathname) == dir \o <<"/">> \o pathname

Init ==
  /\ force \in BOOLEAN
  /\ do_expand_full \in BOOLEAN
  /\ strip_components \in 0..MaxStrip
  /\ includes \in IncludeChoices
  /\ \E ex \in ExcludeChoices : matching = [inclusions |-> includes, exclusions |-> ex]
  /\ pc = "main"
  /\ status = "running"
  /\ outdir_state \in {"absent", "empty", "nonempty"}
  /\ overwritten = FALSE
  /\ cwd = <<".">>
  /\ extracted = NoExtract
  /\ p = NULL /\ e = NoEntry /\ rel = NULL /\ logical_path = NULL
  /\ nested_outdir = NULL /\ nested_strip = 0 /\ prefix = NULL /\ saved_cwd = NULL
  /\ in = NoStream /\ delivered = << >>
  /\ s_path = NULL /\ s_strip = 0 /\ s_out = NULL

\* exit(1): the process is gone, nothing else changes.
Exit1 ==
  /\ status' = "fail"
  /\ UNCHANGED <<options, pc, outdir_state, overwritten, cwd, extracted, entry, call,
                 stream, stripper>>

\* Back at the head of a loop: the entry's strings are freed.
NoCurrentEntry == p' = NULL /\ e' = NoEntry /\ rel' = NULL /\ logical_path' = NULL

(***************************************************************************)
(* main up to the loop: ensure_outdir, the readers and writers, chdir      *)
(***************************************************************************)
\* ensure_outdir: an output directory that exists is taken as it is.
\* (The force argument is not read.)
ensure_outdir(state, frc) == IF state = "absent" THEN "empty" ELSE state

Setup ==
  /\ status = "running" /\ pc = "main"
  /\ \/ Exit1
     \/ /\ outdir_state' = ensure_outdir(outdir_state, force)
        /\ cwd' = Chdir(cwd, outdir)
        /\ pc' = "next_header"
        /\ UNCHANGED <<options, status, overwritten, extracted, entry, call, stream,
                       stripper>>

(***************************************************************************)
(* The loop of main                                                        *)
(***************************************************************************)
NextHeader ==
  /\ status = "running" /\ pc = "next_header"
  /\ \/ \E path \in PathPool, link \in LinkPool :
          /\ p' = path
          /\ e' = [pathname |-> path, hardlink |-> link]
          /\ rel' = NULL /\ logical_path' = NULL
          /\ extracted' = NoExtract
          /\ pc' = "sanitize"
          /\ UNCHANGED <<options, status, outdir_state, overwritten, cwd, call, stream,
                         stripper>>
     \/ \* anything but ARCHIVE_OK ends the loop, and main returns 0
        /\ pc' = "done" /\ status' = "ok"
        /\ extracted' = NoExtract
        /\ NoCurrentEntry
        /\ UNCHANGED <<options, outdir_state, overwritten, cwd, call, stream, stripper>>

Sanitize ==
  /\ status = "running" /\ pc = "sanitize"
  /\ LET r == normalize_rel_path(p)
     IN  IF ~r.ok THEN Exit1
         ELSE /\ rel' = r.rel
              /\ e' = [e EXCEPT !.pathname = r.rel]
              /\ pc' = "filter"
              /\ UNCHANGED <<options, status, outdir_state, overwritten, cwd, extracted,
                             p, logical_path, call, stream, stripper>>

\* Whether a nested archive is expanded.
include_nested(m, incl, path) ==
  \/ should_extract_path(m, path)
  \/ Len(incl) > 0 /\ has_include_descendant(incl, path)

Filter ==
  /\ status = "running" /\ pc = "filter"
  /\ LET lp == join_prefix_path(NULL, rel)
         accept == IF do_expand_full /\ should_be_treated_as_nested_archive(rel)
                   THEN include_nested(matching, includes, lp)
                   ELSE should_extract_path(matching, lp)
     IN  IF ~accept
         THEN /\ pc' = "next_header"
              /\ NoCurrentEntry
              /\ UNCHANGED <<options, status, outdir_state, overwritten, cwd, extracted,
                             call, stream, stripper>>
         ELSE /\ logical_path' = lp
              /\ pc' = IF do_expand_full /\ should_be_treated_as_nested_archive(rel)
                       THEN "nested_setup" ELSE "strip"
              /\ UNCHANGED <<options, status, outdir_state, overwritten, cwd, extracted,
                             p, e, rel, call, stream, stripper>>

Strip ==
  /\ status = "running" /\ pc = "strip"
  /\ LET r == apply_strip_components(e, strip_components)
     IN  IF r.skip
         THEN /\ pc' = "next_header"
              /\ NoCurrentEntry
              /\ UNCHANGED <<options, status, outdir_state, overwritten, cwd, extracted,
                             call, stream, stripper>>
         ELSE /\ e' = r.e
              /\ pc' = "extract"
              /\ UNCHANGED <<options, status, outdir_state, overwritten, cwd, extracted,
                             p, rel, logical_path, call, stream, stripper>>

\* archive_read_extract2: the entry is written at its pathname under the
\* current directory, in the place of whatever is there (no option of the
\* writer asks it to keep existing files), or the writer fails.
Extract ==
  /\ status = "running" /\ pc = "extract"
  /\ \/ Exit1
     \/ /\ extracted' = [dir |-> cwd, pathname |-> e.pathname]
        /\ overwritten' = (overwritten
                             \/ (outdir_state = "nonempty"
                                   /\ Location(cwd, e.pathname) \in ExistingFiles))
        /\ pc' = "next_header"
        /\ UNCHANGED <<options, status, outdir_state, cwd, entry, call, stream, stripper>>

(***************************************************************************)
(* A nested archive: the call in main and                                  *)
(* extract_nested_archive_from_stream                                      *)
(***************************************************************************)
\* The directory the nested archive is expanded in.
nested_outdir_of(path, strip) ==
  LET dir == strip_components_path(path, strip)
  IN  IF dir = NULL THEN <<".">> ELSE dir

\* A slip: the strip count is passed on as it is.
nested_strip_of_unreduced(strip, rel_components) == strip

\* A slip: the subtraction is not floored at zero.
nested_strip_of_unfloored(strip, rel_components) == strip - rel_components

\* The strip count left for the entries of the nested archive.
nested_strip_of(strip, rel_components) ==
  IF strip > rel_components THEN strip - rel_components ELSE 0

\* mkdirs_for_path makes the directory or fails.
NestedSetup ==
  /\ status = "running" /\ pc = "nested_setup"
  /\ \/ Exit1
     \/ /\ nested_outdir' = nested_outdir_of(rel, strip_components)
        /\ nested_strip' = nested_strip_of(strip_components, path_component_count(rel))
        /\ pc' = "nested_open"
        /\ UNCHANGED <<options, status, outdir_state, overwritten, cwd, extracted, entry,
                       prefix, saved_cwd, stream, stripper>>

\* The stream over the entry's data, the reader and the writer are set up,
\* the current directory is saved and changed.
NestedOpen ==
  /\ status = "running" /\ pc = "nested_open"
  /\ \/ Exit1
     \/ \E raw \in ContentPool :
          /\ in' = [raw |-> raw, off |-> 0, eof |-> FALSE]
          /\ delivered' = << >>
          /\ prefix' = rel
          /\ saved_cwd' = cwd
          /\ cwd' = Chdir(cwd, nested_outdir)
          /\ NoCurrentEntry
          /\ pc' = "n_next_header"
          /\ UNCHANGED <<options, status, outdir_state, overwritten, extracted,
                         nested_outdir, nested_strip, stripper>>

\* astream_read_cb with astream_fill, called by the reader of the nested
\* archive: the next block of the entry's data is handed over as it is.
\* (blk, blksz and pos are left out: every call leaves pos = blksz.)
astream_read_cb(s) ==
  IF s.off >= Len(s.raw)
  THEN [s |-> [s EXCEPT !.eof = TRUE], buff |-> << >>]
  ELSE LET end == IF s.off + BlockBytes < Len(s.raw)
                  THEN s.off + BlockBytes ELSE Len(s.raw)
       IN  [s |-> [s EXCEPT !.off = end], buff |-> SubSeq(s.raw, s.off + 1, end)]

AstreamRead ==
  /\ status = "running" /\ pc = "n_next_header"
  /\ ~in.eof
  /\ \/ Exit1
     \/ LET r == astream_read_cb(in)
        IN  /\ in' = r.s
            /\ delivered' = delivered \o r.buff
            /\ UNCHANGED <<options, pc, status, outdir_state, overwritten, cwd, extracted,
                           entry, call, stripper>>

NestedNextHeader ==
  /\ status = "running" /\ pc = "n_next_header"
  /\ in.off > 0 \/ in.eof
  /\ \/ Exit1
     \/ \E path \in PathPool, link \in LinkPool :
          /\ p' = path
          /\ e' = [pathname |-> path, hardlink |-> link]
          /\ rel' = NULL /\ logical_path' = NULL
          /\ extracted' = NoExtract
          /\ pc' = "n_sanitize"
          /\ UNCHANGED <<options, status, outdir_state, overwritten, cwd, call, stream,
                         stripper>>
     \/ \* ARCHIVE_EOF
        /\ pc' = "n_return"
        /\ NoCurrentEntry
        /\ UNCHANGED <<options, status, outdir_state, overwritten, cwd, extracted, call,
                       stream, stripper>>

NestedSanitize ==
  /\ status = "running" /\ pc = "n_sanitize"
  /\ LET r == normalize_rel_path(p)
     IN  IF ~r.ok THEN Exit1
         ELSE /\ rel' = r.rel
              /\ e' = [e EXCEPT !.pathname = r.rel]
              /\ pc' = "n_filter"
              /\ UNCHANGED <<options, status, outdir_state, overwritten, cwd, extracted,
                             p, logical_path, call, stream, stripper>>

NestedFilter ==
  /\ status = "running" /\ pc = "n_filter"
  /\ LET lp == join_prefix_path(prefix, rel)
     IN  IF ~should_extract_path(matching, lp)
         THEN /\ pc' = "n_next_header"
              /\ NoCurrentEntry
              /\ UNCHANGED <<options, status, outdir_state, overwritten, cwd, extracted,
                             call, stream, stripper>>
         ELSE /\ logical_path' = lp
              /\ pc' = "n_strip"
              /\ UNCHANGED <<options, status, outdir_state, overwritten, cwd, extracted,
                             p, e, rel, call, stream, stripper>>

NestedStrip ==
  /\ status = "running" /\ pc = "n_strip"
  /\ LET r == apply_strip_components(e, nested_strip)
     IN  IF r.skip
         THEN /\ pc' = "n_next_header"
              /\ NoCurrentEntry
              /\ UNCHANGED <<options, status, outdir_state, overwritten, cwd, extracted,
                             call, stream, stripper>>
         ELSE /\ e' = r.e
              /\ pc' = "n_extract"
              /\ UNCHANGED <<options, status, outdir_state, overwritten, cwd, extracted,
                             p, rel, logical_path, call, stream, stripper>>

NestedExtract ==
  /\ status = "running" /\ pc = "n_extract"
  /\ \/ Exit1
     \/ /\ extracted' = [dir |-> cwd, pathname |-> e.pathname]
        /\ overwritten' = (overwritten
                             \/ (outdir_state = "nonempty"
                                   /\ Location(cwd, e.pathname) \in ExistingFiles))
        /\ pc' = "n_next_header"
        /\ UNCHANGED <<options, status, outdir_state, cwd, entry, call, stream, stripper>>

\* A slip: the current directory is left where the nested archive was
\* expanded.
restored_cwd_not_restored(current, saved) == current

\* chdir(cwd) at the end of extract_nested_archive_from_stream.
restored_cwd(current, saved) == saved

NestedReturn ==
  /\ status = "running" /\ pc = "n_return"
  /\ \/ Exit1
     \/ /\ cwd' = restored_cwd(cwd, saved_cwd)
        /\ pc' = "next_header"
        /\ nested_outdir' = NULL /\ nested_strip' = 0 /\ prefix' = NULL
        /\ saved_cwd' = NULL
        /\ in' = NoStream /\ delivered' = << >>
        /\ UNCHANGED <<options, status, outdir_state, overwritten, extracted, entry,
                       stripper>>

Next ==
  \/ Setup
  \/ NextHeader
  \/ Sanitize
  \/ Filter
  \/ Strip
  \/ Extract
  \/ NestedSetup
  \/ NestedOpen
  \/ AstreamRead
  \/ NestedNextHeader
  \/ NestedSanitize
  \/ NestedFilter
  \/ NestedStrip
  \/ NestedExtract
  \/ NestedReturn

Spec == Init /\ [][Next]_vars

(***************************************************************************)
(* strip_components_path on its own: every path of at most MaxPathLen      *)
(* bytes over "a", "b", "c" and "/", every strip count up to MaxStrip.          *)
(***************************************************************************)
StripAlphabet == {"a", "b", "c", "/"}

StripPaths == UNION { [1..n -> StripAlphabet] : n \in 0..MaxPathLen }

InitStrip ==
  /\ force = FALSE /\ do_expand_full = FALSE /\ strip_components = 0
  /\ includes = << >>
  /\ matching = [inclusions |-> << >>, exclusions |-> << >>]
  /\ pc = "strip_call"
  /\ status = "running"
  /\ outdir_state = "empty"
  /\ overwritten = FALSE
  /\ cwd = <<".">>
  /\ extracted = NoExtract
  /\ p = NULL /\ e = NoEntry /\ rel = NULL /\ logical_path = NULL
  /\ nested_outdir = NULL /\ nested_strip = 0 /\ prefix = NULL /\ saved_cwd = NULL
  /\ in = NoStream /\ delivered = << >>
  /\ s_path \in StripPaths /\ s_strip \in 0..MaxStrip /\ s_out = NULL

CallStrip ==
  /\ pc = "strip_call"
  /\ s_out' = strip_components_path(s_path, s_strip)
  /\ pc' = "strip_returned"
  /\ UNCHANGED <<options, status, outdir_state, overwritten, cwd, extracted, entry, call,
                 stream, s_path, s_strip>>

NextStrip == CallStrip

SpecStrip == InitStrip /\ [][NextStrip]_vars

(***************************************************************************)
(* Paths as segments: what the properties below are stated in.             *)
(***************************************************************************)
\* The positions where a segment (a maximal run of bytes other than "/")
\* starts.
SegmentStarts(path) ==
  {i \in 1..Len(path) : path[i] # "/" /\ (i = 1 \/ path[i - 1] = "/")}

NumSegments(path) == Cardinality(SegmentStarts(path))

\* The path from its (n+1)-th segment on; NULL when it has at most n.
AfterSegments(path, n) ==
  IF n = 0 THEN path
  ELSE IF NumSegments(path) <= n THEN NULL
  ELSE LET start == CHOOSE i \in SegmentStarts(path) :
                      Cardinality({j \in SegmentStarts(path) : j < i}) = n
       IN  From(path, start)

\* The segment that starts at i is "..".
DotDotAt(path, i) ==
  /\ i + 1 <= Len(path)
  /\ path[i] = "." /\ path[i + 1] = "."
  /\ (i + 2 > Len(path) \/ path[i + 2] = "/")

HasDotDotSegment(path) == \E i \in SegmentStarts(path) : DotDotAt(path, i)

\* Relative, not empty, and without a ".." segment.
SafeRelative(path) ==
  /\ path # NULL
  /\ Len(path) > 0
  /\ path[1] # "/"
  /\ ~HasDotDotSegment(path)

\* What the sanitizer must refuse: no path, an empty or absolute one or one
\* with a ".." segment, once a single leading "./" is taken off.
PathViolation(path) ==
  \/ path = NULL
  \/ LET r == IF Len(path) >= 2 /\ path[1] = "." /\ path[2] = "/"
              THEN SubSeq(path, 3, Len(path)) ELSE path
     IN  ~SafeRelative(r)

\* No "/" at the start and no "/" right after a "/", except at the very end
\* of the path.
SingleSeparators(path) ==
  \A i \in 1..Len(path) :
    (path[i] = "/" /\ (i = 1 \/ path[i - 1] = "/"))
      => \A j \in i..Len(path) : path[j] = "/"

\* The base name of a path is one of the nested-archive names.
HasMarkerName(path) ==
  /\ path # NULL
  /\ \E name \in {Payload, Scripts} :
       \/ path = name
       \/ /\ Len(path) > Len(name)
          /\ SubSeq(path, Len(path) - Len(name), Len(path)) = <<"/">> \o name

(***************************************************************************)
(* C1: every pathname handed to archive_read_extract2, at the outer level  *)
(* and inside a nested archive, with any strip count, is not empty, does   *)
(* not begin with "/" and has no ".." segment.                             *)
(***************************************************************************)
C1_ExtractedPathSafe ==
  /\ pc \in {"extract", "n_extract"} => SafeRelative(e.pathname)
  /\ extracted # NoExtract => SafeRelative(extracted.pathname)

\* An entry "a/b" of the nested archive "Payload", strip count 2: one
\* component is left to strip inside, and "b" is extracted.
C1_Witness ==
  /\ prefix = Payload /\ strip_components = 2 /\ nested_strip = 1
  /\ p = <<"a", "/", "b">>
  /\ extracted # NoExtract /\ extracted.pathname = <<"b">>

(***************************************************************************)
(* C2: an entry's pathname is sanitized before the entry is filtered,      *)
(* before a directory is made and before anything is written for it, at    *)
(* both levels; a violation ends the run with a failure: the entry is not  *)
(* skipped and nothing is processed after it.                              *)
(***************************************************************************)
\* Where the current entry is filtered, stripped or written, or a directory
\* is made for it.
C2_PastSanitize ==
  pc \in {"filter", "strip", "extract", "nested_setup", "nested_open",
          "n_filter", "n_strip", "n_extract"}

C2_SanitizeFirst ==
  /\ [](C2_PastSanitize => ~PathViolation(p))
  /\ [][/\ status = "running"
        /\ (pc \in {"sanitize", "n_sanitize"} /\ PathViolation(p))
             => (status' = "fail" /\ pc' = pc)]_vars

\* Inside a nested archive an entry "/a", which the exclude pattern "a"
\* would have filtered out, ends the run.
C2_Witness ==
  /\ status = "fail" /\ pc = "n_sanitize"
  /\ p = <<"/", "a">>
  /\ matching.exclusions = << <<"a">> >>

OccursAt(pat, path, i) ==
  /\ i + Len(pat) - 1 <= Len(path)
  /\ SubSeq(path, i, i + Len(pat) - 1) = pat
  /\ (i + Len(pat) > Len(path) \/ path[i + Len(pat)] = "/")

\* An exclude pattern matches the path or a directory on the way to it or
\* below it: it occurs at the start of some segment.
ExcludeHit(m, path) ==
  /\ path # NULL
  /\ \E k \in 1..Len(m.exclusions) :
       \E i \in SegmentStarts(path) : OccursAt(m.exclusions[k], path, i)

IncludedDirectly(incl, path) == \E k \in 1..Len(incl) : path = incl[k]

\* path lies below a path an include pattern matches.
BelowIncluded(incl, path) ==
  \E k \in 1..Len(incl) :
    Len(incl[k]) < Len(path) /\ OccursAt(incl[k], path, 1)

\* path is a directory on the way to an include pattern.
AboveIncluded(incl, path) ==
  \E k \in 1..Len(incl) :
    Len(path) < Len(incl[k]) /\ OccursAt(path, incl[k], 1)

\* Where an entry has passed the filter, and logical_path is its path.
AcceptedPcs == {"strip", "extract", "nested_setup", "nested_open", "n_strip", "n_extract"}

(***************************************************************************)
(* C4: an entry whose logical path matches an exclude pattern is never     *)
(* extracted and never expanded as a nested archive, whatever the include  *)
(* patterns are, at the outer level and inside a nested archive.           *)
(***************************************************************************)
C4_ExcludeWins ==
  /\ pc \in AcceptedPcs => ~ExcludeHit(matching, logical_path)
  /\ pc \in NestedPcs => ~ExcludeHit(matching, prefix)

\* Leaving aside the nested archives that lie above an include pattern, the
\* excluded entries are indeed left out.
C4_ExcludeWinsButForIncludeAncestors ==
  /\ (pc \in AcceptedPcs /\ ~(pc \in {"nested_setup", "nested_open"}
                                /\ AboveIncluded(includes, logical_path)))
       => ~ExcludeHit(matching, logical_path)
  /\ (pc \in NestedPcs /\ ~AboveIncluded(includes, prefix))
       => ~ExcludeHit(matching, prefix)

(***************************************************************************)
(* C5: without patterns every entry is accepted; with include patterns an  *)
(* entry is accepted only if its logical path matches one, lies above one  *)
(* or lies below a path that matches one; at both levels, the logical path *)
(* being the sanitized path joined to the path of the enclosing nested     *)
(* archive.                                                                *)
(***************************************************************************)
C5_AcceptedOnlyIfIncluded ==
  /\ [](pc \in AcceptedPcs =>
          /\ logical_path = IF prefix = NULL THEN rel ELSE prefix \o <<"/">> \o rel
          /\ Len(includes) > 0 =>
               \/ IncludedDirectly(includes, logical_path)
               \/ AboveIncluded(includes, logical_path)
               \/ BelowIncluded(includes, logical_path))
  /\ [][(/\ pc \in {"filter", "n_filter"}
         /\ Len(matching.inclusions) = 0 /\ Len(matching.exclusions) = 0)
          => pc' \in AcceptedPcs]_vars

\* With the include pattern "Payload/a", the nested archive "Payload" is
\* expanded and its entry "a/b" is accepted as "Payload/a/b".
C5_Witness ==
  /\ pc = "n_strip"
  /\ includes = << Payload \o <<"/", "a">> >>
  /\ prefix = Payload /\ rel = <<"a", "/", "b">>
  /\ logical_path = Payload \o <<"/", "a", "/", "b">>

(***************************************************************************)
(* C6: the current directory is the output directory whenever main is at   *)
(* an entry of the outer archive: extract_nested_archive_from_stream       *)
(* returns with the directory it was called in; when it fails, or the      *)
(* chdir back fails, nothing more is done.                                 *)
(***************************************************************************)
C6_CwdRestored ==
  /\ []((pc \in OuterPcs \/ pc = "done") => cwd = outdir)
  /\ [][/\ status = "running"
        /\ pc \in NestedPcs => (pc' \in NestedPcs \/ (pc = "n_return" /\ pc' = "next_header"))
        /\ (pc = "n_return" /\ pc' = "next_header") => cwd' = saved_cwd]_vars

\* Back in main after the nested archive "Payload" was expanded in
\* out/Payload.
C6_Witness ==
  /\ pc = "next_header" /\ status = "running"
  /\ extracted # NoExtract /\ extracted.dir = outdir \o <<"/">> \o Payload
  /\ cwd = outdir

(***************************************************************************)
(* The pbzx container, as the specification describes it: the magic, a     *)
(* flags word, and while bit 24 of the flags is set a chunk of a flags     *)
(* word, a length word and that many bytes, which begin with the xz header *)
(* and end with "YZ".  The result is the chunks' bytes one after another,  *)
(* FormatError for a container that is not well formed.                    *)
(***************************************************************************)
FormatError == <<-1>>

XzHeader == <<253, 55, 122, 88, 90, 0>>

HasPbzxMagic(bytes) == Len(bytes) >= 4 /\ SubSeq(bytes, 1, 4) = PbzxMagic

\* Bit 24 of the big-endian 64-bit word at bytes i .. i+7.
Bit24(bytes, i) == bytes[i + 4] % 2 = 1

\* The big-endian 64-bit word at i .. i+7, -1 when it is 2^31 or more.
Word(bytes, i) ==
  IF (\E k \in 0..3 : bytes[i + k] # 0) \/ bytes[i + 4] >= 128 THEN -1
  ELSE ((bytes[i + 4] * 256 + bytes[i + 5]) * 256 + bytes[i + 6]) * 256 + bytes[i + 7]

RECURSIVE PbzxChunks(_, _, _)
PbzxChunks(bytes, i, more) ==
  IF ~more THEN << >>
  ELSE IF i + 15 > Len(bytes) THEN FormatError
  ELSE LET length == Word(bytes, i + 8)
           first == i + 16
           last == first + length - 1
       IN  IF length < 6 \/ last > Len(bytes) THEN FormatError
           ELSE IF SubSeq(bytes, first, first + 5) # XzHeader THEN FormatError
           ELSE IF SubSeq(bytes, last - 1, last) # <<89, 90>> THEN FormatError
           ELSE LET rest == PbzxChunks(bytes, last + 1, Bit24(bytes, i))
                IN  IF rest = FormatError THEN FormatError
                    ELSE SubSeq(bytes, first, last) \o rest

PbzxDeframe(bytes) ==
  IF ~HasPbzxMagic(bytes) \/ Len(bytes) < 12 THEN FormatError
  ELSE PbzxChunks(bytes, 13, Bit24(bytes, 5))

(***************************************************************************)
(* C7: the reader of a nested archive is given the entry's bytes as they   *)
(* are when they do not begin with the pbzx magic, and the chunks of the   *)
(* pbzx container (without magic, flags and lengths) when they do.         *)
(***************************************************************************)
C7_PbzxDeframed ==
  (pc \in NestedPcs /\ in.eof) =>
    delivered = IF HasPbzxMagic(in.raw) THEN PbzxDeframe(in.raw) ELSE in.raw

\* What the code does: the bytes are handed over as they are, pbzx or not.
C7_RawDelivered ==
  (pc \in NestedPcs /\ in.eof) => delivered = in.raw

(***************************************************************************)
(* C8: without the force option, a run into a non-empty output directory   *)
(* fails before it writes over an existing file.                           *)
(***************************************************************************)
C8_NoOverwriteWithoutForce ==
  (outdir_state = "nonempty" /\ ~force) => ~overwritten

C10_NestedBudget ==
  (pc = "nested_open" \/ pc \in NestedPcs) =>
    LET r == IF pc = "nested_open" THEN rel ELSE prefix
        dir == strip_components_path(r, strip_components)
        left == strip_components - NumSegments(r)
    IN  /\ nested_outdir = IF dir = NULL THEN <<".">> ELSE dir
        /\ nested_strip = IF left > 0 THEN left ELSE 0
        /\ nested_strip >= 0 /\ nested_strip <= strip_components
        /\ pc \in NestedPcs =>
             cwd = IF dir = NULL THEN outdir ELSE outdir \o <<"/">> \o dir

\* "Payload" with strip count 2: nothing is left of the path, the archive
\* is expanded in the output directory with strip count 1.
C10_Witness ==
  /\ pc = "n_filter"
  /\ prefix = Payload /\ strip_components = 2
  /\ nested_outdir = <<".">> /\ nested_strip = 1
  /\ cwd = outdir

(***************************************************************************)
(* C11: for a nested archive at the sanitized path r and an accepted entry *)
(* of it with the sanitized path q, both with single separators and none   *)
(* at the end, and strip count N: the entry is written at                  *)
(* strip_components_path(r/q, N) under the output directory, and it is     *)
(* skipped exactly when that is NULL.                                      *)
(***************************************************************************)
\* Segments separated by a single "/", none at the start or at the end.
PlainPath(path) ==
  /\ path # NULL /\ Len(path) > 0
  /\ SingleSeparators(path)
  /\ path[Len(path)] # "/"

\* Stripping the root-relative path of the entry being stripped.
C11_Whole == strip_components_path(prefix \o <<"/">> \o rel, strip_components)

\* The entry's hardlink target is used up by the strip count left for the
\* nested archive.
C11_LinkUsedUp ==
  LET left == strip_components - NumSegments(prefix)
  IN  /\ e.hardlink # NULL
      /\ left > 0
      /\ strip_components_path(e.hardlink, left) = NULL

C11_AtStrip == pc = "n_strip" /\ pc' # pc /\ PlainPath(prefix) /\ PlainPath(rel)

\* As claimed: whatever the entry's hardlink target.
C11_SamePlacement ==
  [][C11_AtStrip =>
       /\ pc' = "n_next_header" <=> C11_Whole = NULL
       /\ pc' = "n_extract" =>
            Location(cwd, e'.pathname) = Location(outdir, C11_Whole)]_vars

\* As amended: the entry is also skipped when it has a hardlink target that
\* the strip count left for the nested archive uses up.
C11_SamePlacementButForLinks ==
  [][C11_AtStrip =>
       /\ pc' = "n_next_header" <=> (C11_Whole = NULL \/ C11_LinkUsedUp)
       /\ pc' = "n_extract" =>
            Location(cwd, e'.pathname) = Location(outdir, C11_Whole)]_vars

\* The entry "a/b" of the nested archive "a/Payload", strip count 2: both
\* segments of the archive's path are stripped and the entry is written at
\* out/a/b.
C11_Witness ==
  /\ pc = "n_next_header" /\ do_expand_full
  /\ prefix = <<"a", "/">> \o Payload /\ strip_components = 2
  /\ rel = <<"a", "/", "b">>
  /\ extracted = [dir |-> outdir, pathname |-> <<"a", "/", "b">>]

====
